---------------------------- MODULE Spec2Model ----------------------------
(***************************************************************************)
(* The sales dashboard script src/app.py as a state machine.               *)
(*                                                                         *)
(* Text.  A text is a sequence of symbols, each symbol a TLA+ string.      *)
(* TLA+ strings are ASCII, so a Cyrillic letter is written "c" followed by *)
(* its transliteration ("cs" is the letter es, "csh" the letter sha) and   *)
(* its capital "C" followed by the same; a Latin letter, a digit or a      *)
(* punctuation mark is itself.  The mapping is one to one, so substring    *)
(* tests on the symbols are the substring tests of the source.  Where the  *)
(* code only strips and compares a text (column titles, managers,          *)
(* products) the whole word is held as one symbol.                         *)
(*                                                                         *)
(* Numbers.  A float is held as the exact fraction it stands for, a record *)
(* [n, d] in lowest terms with d > 0.  Cells are short, so magnitudes stay *)
(* far inside the float range and no infinity or NaN arises from sums.     *)
(***************************************************************************)
EXTENDS Integers, Sequences, FiniteSets, TLC

VARIABLES
    pc,                 \* position of the script run
    raw_data,           \* app.py:360  the table load_data returned
    df,                 \* app.py:361  the table preprocess_data returned
    start_date,         \* app.py:378
    end_date,           \* app.py:378
    selected_managers,  \* app.py:381
    selected_products,  \* app.py:388
    selected_stages,    \* app.py:395
    selected_statuses,  \* app.py:407
    min_amount,         \* app.py:413
    client_query,       \* app.py:420
    compare_previous,   \* app.py:421
    filtered_df,        \* app.py:423
    kpis,               \* app.py:439
    manager_table,      \* app.py:440
    client_table,       \* app.py:441
    product_table,      \* app.py:442
    previous_period,    \* app.py:449  <<previous_start, previous_end>>
    previous_kpis,      \* app.py:462
    insights,           \* app.py:538  what generate_insights returned
    stage_table,        \* app.py:610
    stage_detail,       \* app.py:639
    report,             \* the st.error / st.warning messages that end a run
    executed            \* the functions of the engine that ran in this run

vars == <<pc, raw_data, df, start_date, end_date, selected_managers,
          selected_products, selected_stages, selected_statuses, min_amount,
          client_query, compare_previous, filtered_df, kpis, manager_table,
          client_table, product_table, previous_period, previous_kpis,
          insights, stage_table, stage_detail, report, executed>>

-----------------------------------------------------------------------------
(* Bounds of the model.                                                    *)

\* Most rows of a table.
MaxRows == 2

\* Most rows of a table of the funnel runs.
MaxFunnelRows == 4

\* A deal date is a day number, counted from a base date inside the range of
\* pandas timestamps (1677 .. 2262), so that no date arithmetic of the script
\* leaves the range of datetime.date; a time of day is 0 (midnight) or 1.

-----------------------------------------------------------------------------
(* Exact fractions for the floats of the code.                             *)

Abs(i) == IF i < 0 THEN -i ELSE i

RECURSIVE Gcd(_, _)
Gcd(a, b) == IF b = 0 THEN a ELSE Gcd(b, a % b)

\* The fraction n/d in lowest terms; 0/0, the NaN of a float, when d = 0.
Frac(n, d) ==
    LET g == Gcd(Abs(n), Abs(d))
        s == IF d < 0 THEN -1 ELSE 1
    IN  IF d = 0
        THEN [n |-> 0, d |-> 0]
        ELSE [n |-> (s * n) \div g, d |-> (s * d) \div g]

Rat(i) == [n |-> i, d |-> 1]
Zero == Rat(0)

RAdd(x, y) == Frac(x.n * y.d + y.n * x.d, x.d * y.d)
RSub(x, y) == Frac(x.n * y.d - y.n * x.d, x.d * y.d)
RMul(x, y) == Frac(x.n * y.n, x.d * y.d)
RDiv(x, y) == Frac(x.n * y.d, x.d * y.n)
RLess(x, y) == x.n * y.d < y.n * x.d
RLeq(x, y) == x.n * y.d <= y.n * x.d
RMax(x, y) == IF RLess(x, y) THEN y ELSE x

RECURSIVE RSum(_)
RSum(s) == IF s = <<>> THEN Zero ELSE RAdd(Head(s), RSum(Tail(s)))

RECURSIVE ISum(_)
ISum(s) == IF s = <<>> THEN 0 ELSE Head(s) + ISum(Tail(s))

Range(s) == {s[i] : i \in 1..Len(s)}

-----------------------------------------------------------------------------
(* Text: str.strip, str.lower, the `in` of two strings.                    *)

Whitespace == {" "}

RECURSIVE lstrip(_)
lstrip(s) ==
    IF s # <<>> /\ Head(s) \in Whitespace THEN lstrip(Tail(s)) ELSE s

RECURSIVE rstrip(_)
rstrip(s) ==
    IF s # <<>> /\ s[Len(s)] \in Whitespace
    THEN rstrip(SubSeq(s, 1, Len(s) - 1))
    ELSE s

strip(s) == rstrip(lstrip(s))

\* str.lower on the capitals the model's texts use; any other symbol is its
\* own lower case.
LowerOf(c) ==
    CASE c = "Cs" -> "cs"
      [] c = "Cl" -> "cl"
      [] c = "Co" -> "co"
      [] c = "Cp" -> "cp"
      [] c = "Cn" -> "cn"
      [] c = "W"  -> "w"
      [] c = "O"  -> "o"
      [] c = "N"  -> "n"
      [] c = "A"  -> "a"
      [] c = "B"  -> "b"
      [] OTHER    -> c

lower(s) == [i \in 1..Len(s) |-> LowerOf(s[i])]

\* keyword in text
Contains(text, keyword) ==
    \E i \in 0..(Len(text) - Len(keyword)) :
        SubSeq(text, i + 1, i + Len(keyword)) = keyword

-----------------------------------------------------------------------------
(* app.py:8-48  the constants of the module.                               *)

DATE_COL == <<"Data sdelki">>
MANAGER_COL == <<"Menedzher">>
STAGE_COL == <<"Stadiya sdelki">>
CLIENT_COL == <<"FIO Klienta">>
PRODUCT_COL == <<"Produkt">>
PLAN_COL == <<"Summa prodazhi plan">>
FACT_COL == <<"Summa prodazhi fakt">>

REQUIRED_COLUMNS ==
    <<DATE_COL, MANAGER_COL, STAGE_COL, CLIENT_COL, PRODUCT_COL, PLAN_COL,
      FACT_COL>>

\* The keys of STATUS_LABELS, in the order of the dict.
STATUS_LABELS == <<"won", "open", "lost">>

\* ("sdelka", "oplata", "uspesh", "won", "zakryto")
WON_KEYWORDS ==
    << <<"cs", "cd", "ce", "cl", "ck", "ca">>,
       <<"co", "cp", "cl", "ca", "ct", "ca">>,
       <<"cu", "cs", "cp", "ce", "csh">>,
       <<"w", "o", "n">>,
       <<"cz", "ca", "ck", "cr", "cy", "ct", "co">> >>

\* ("poterya", "otkaz", "lost", "proig", "neuspesh")
LOST_KEYWORDS ==
    << <<"cp", "co", "ct", "ce", "cr", "cya">>,
       <<"co", "ct", "ck", "ca", "cz">>,
       <<"l", "o", "s", "t">>,
       <<"cp", "cr", "co", "ci", "cg">>,
       <<"cn", "ce", "cu", "cs", "cp", "ce", "csh">> >>

\* The items of the dict in insertion order, which is the order .items()
\* iterates: lid, kvalifika, kontakt, prezenta, kommerches, peregovor,
\* schet, dogovor, sdelka, oplata, poter, otkaz.
STAGE_PROBABILITY_HINTS ==
    << [hint |-> <<"cl", "ci", "cd">>, probability |-> Frac(1, 10)],
       [hint |-> <<"ck", "cv", "ca", "cl", "ci", "cf", "ci", "ck", "ca">>,
        probability |-> Frac(2, 10)],
       [hint |-> <<"ck", "co", "cn", "ct", "ca", "ck", "ct">>,
        probability |-> Frac(25, 100)],
       [hint |-> <<"cp", "cr", "ce", "cz", "ce", "cn", "ct", "ca">>,
        probability |-> Frac(4, 10)],
       [hint |-> <<"ck", "co", "cm", "cm", "ce", "cr", "cch", "ce", "cs">>,
        probability |-> Frac(5, 10)],
       [hint |-> <<"cp", "ce", "cr", "ce", "cg", "co", "cv", "co", "cr">>,
        probability |-> Frac(65, 100)],
       [hint |-> <<"cs", "cch", "ce", "ct">>, probability |-> Frac(75, 100)],
       [hint |-> <<"cd", "co", "cg", "co", "cv", "co", "cr">>,
        probability |-> Frac(85, 100)],
       [hint |-> <<"cs", "cd", "ce", "cl", "ck", "ca">>,
        probability |-> Rat(1)],
       [hint |-> <<"co", "cp", "cl", "ca", "ct", "ca">>,
        probability |-> Rat(1)],
       [hint |-> <<"cp", "co", "ct", "ce", "cr">>, probability |-> Zero],
       [hint |-> <<"co", "ct", "ck", "ca", "cz">>, probability |-> Zero] >>

\* "Ne ukazano", the text that stands for a blank or missing text cell.
NOT_SPECIFIED ==
    <<"Cn", "ce", " ", "cu", "ck", "ca", "cz", "ca", "cn", "co">>

\* A missing cell (the float nan pandas reads from an empty Excel cell).
NaN == <<"NaN">>

-----------------------------------------------------------------------------
(* app.py:59-88  safe_div, classify_stage, stage_probability.              *)

\* safe_div with the guard written `denominator or 1`
safe_div_or_one(numerator, denominator) ==
    IF denominator.n # 0 THEN RDiv(numerator, denominator) ELSE numerator

safe_div(numerator, denominator) ==
    IF denominator.n # 0 THEN RDiv(numerator, denominator) ELSE Zero

classify_stage(stage_value) ==
    LET text == lower(strip(stage_value))
    IN  IF \E k \in 1..Len(WON_KEYWORDS) : Contains(text, WON_KEYWORDS[k])
        THEN "won"
        ELSE IF \E k \in 1..Len(LOST_KEYWORDS) :
                    Contains(text, LOST_KEYWORDS[k])
             THEN "lost"
             ELSE "open"

\* stage_probability with the hint that occurs earliest in the label, not
\* the first of the list
stage_probability_by_position(stage_value) ==
    LET text == lower(strip(stage_value))
        hits == {k \in 1..Len(STAGE_PROBABILITY_HINTS) :
                    Contains(text, STAGE_PROBABILITY_HINTS[k].hint)}
        at(k) == CHOOSE i \in 0..Len(text) :
                     /\ SubSeq(text, i + 1,
                               i + Len(STAGE_PROBABILITY_HINTS[k].hint))
                            = STAGE_PROBABILITY_HINTS[k].hint
                     /\ \A j \in 0..(i - 1) :
                            SubSeq(text, j + 1,
                                   j + Len(STAGE_PROBABILITY_HINTS[k].hint))
                                # STAGE_PROBABILITY_HINTS[k].hint
        status == classify_stage(text)
    IN  IF hits # {}
        THEN LET first == CHOOSE k \in hits : \A j \in hits : at(k) <= at(j)
             IN  STAGE_PROBABILITY_HINTS[first].probability
        ELSE IF status = "won" THEN Rat(1)
             ELSE IF status = "lost" THEN Zero
             ELSE Frac(35, 100)

stage_probability(stage_value) ==
    LET text == lower(strip(stage_value))
        hits == {k \in 1..Len(STAGE_PROBABILITY_HINTS) :
                    Contains(text, STAGE_PROBABILITY_HINTS[k].hint)}
        status == classify_stage(text)
    IN  IF hits # {}
        THEN LET first == CHOOSE k \in hits : \A j \in hits : k <= j
             IN  STAGE_PROBABILITY_HINTS[first].probability
        ELSE IF status = "won" THEN Rat(1)
             ELSE IF status = "lost" THEN Zero
             ELSE Frac(35, 100)

-----------------------------------------------------------------------------
(* app.py:91-98  to_numeric.                                               *)

Digits == {"0", "1", "2", "3", "4", "5", "6", "7", "8", "9"}

DigitValue(c) ==
    CASE c = "0" -> 0 [] c = "1" -> 1 [] c = "2" -> 2 [] c = "3" -> 3
      [] c = "4" -> 4 [] c = "5" -> 5 [] c = "6" -> 6 [] c = "7" -> 7
      [] c = "8" -> 8 [] c = "9" -> 9

\* series.astype(str): a text is itself, a missing cell is the text "nan".
astype_str(cell) == IF cell = NaN THEN <<"n", "a", "n">> ELSE cell

\* .str.replace(r"[^\d,.-]", "", regex=True)
KeepNumericChars(s) ==
    SelectSeq(s, LAMBDA c : c \in Digits \cup {",", ".", "-"})

\* .str.replace(",", ".", regex=False)
CommaToDot(s) == [i \in 1..Len(s) |-> IF s[i] = "," THEN "." ELSE s[i]]

\* .replace("", "0")
EmptyToZero(s) == IF s = <<>> THEN <<"0">> ELSE s

cleaned(cell) == EmptyToZero(CommaToDot(KeepNumericChars(astype_str(cell))))

\* The number a run of digits writes; the empty run writes 0.
RECURSIVE DigitsValue(_)
DigitsValue(s) ==
    IF s = <<>> THEN 0
    ELSE 10 * DigitsValue(SubSeq(s, 1, Len(s) - 1)) + DigitValue(s[Len(s)])

RECURSIVE Pow10(_)
Pow10(k) == IF k = 0 THEN 1 ELSE 10 * Pow10(k - 1)

\* pd.to_numeric on one cleaned text, which holds digits, dots and minus
\* signs only: an optional minus sign, then digits with at most one dot and
\* at least one digit.  parsed |-> FALSE is the NaN of errors="coerce".
ParseNumber(s) ==
    LET negative == s # <<>> /\ Head(s) = "-"
        body == IF negative THEN Tail(s) ELSE s
        dots == {i \in 1..Len(body) : body[i] = "."}
        wellFormed ==
            /\ \A i \in 1..Len(body) : body[i] \in Digits \cup {"."}
            /\ Cardinality(dots) <= 1
            /\ \E i \in 1..Len(body) : body[i] \in Digits
        dot == IF dots = {} THEN Len(body) + 1 ELSE CHOOSE i \in dots : TRUE
        whole == SubSeq(body, 1, dot - 1)
        fraction == SubSeq(body, dot + 1, Len(body))
        magnitude ==
            Frac(DigitsValue(whole) * Pow10(Len(fraction))
                     + DigitsValue(fraction),
                 Pow10(Len(fraction)))
    IN  IF wellFormed
        THEN [parsed |-> TRUE,
              value |-> IF negative THEN RSub(Zero, magnitude) ELSE magnitude]
        ELSE [parsed |-> FALSE, value |-> Zero]

\* to_numeric without the .fillna(0.0): the NaN stays, written 0/0
to_numeric_without_fillna(cell) ==
    LET number == ParseNumber(cleaned(cell))
    IN  IF number.parsed THEN number.value ELSE [n |-> 0, d |-> 0]

\* pd.to_numeric(cleaned, errors="coerce").fillna(0.0), for one cell
to_numeric(cell) ==
    LET number == ParseNumber(cleaned(cell))
    IN  IF number.parsed THEN number.value ELSE Zero

-----------------------------------------------------------------------------
(* app.py:107-148  preprocess_data.                                        *)
(*                                                                         *)
(* A raw table is [columns, rows]: the column titles as the file has them  *)
(* and the rows, each a record of the seven cells.  A date cell is         *)
(* [parses, day, time], what pd.to_datetime(errors="coerce") makes of it:  *)
(* a timestamp (day, time of day) or NaT.  An enriched row keeps the date  *)
(* as [day, time] and adds the derived columns:                            *)
(*   status "Status", stage_prob "Veroyatnost etapa",                      *)
(*   potential "Potentsial sdelki", fact_closed "Fakt zakrytiya",          *)
(*   open_pipeline "Otkrytyi paiplain",                                    *)
(*   weighted_forecast "Vzveshennyi prognoz", won "Vyigrano",              *)
(*   lost "Proigrano", in_progress "V rabote", day "Den".                  *)
(* The column "Mesyats" is left out: the model has days, not months.       *)

\* app.py:110,112  the required titles that no stripped title of the file is
missing_columns(columns) ==
    SelectSeq(REQUIRED_COLUMNS,
              LAMBDA column : \A i \in 1..Len(columns) :
                                  strip(columns[i]) # column)

\* app.py:125-126  fillna("Ne ukazano").astype(str).str.strip(), then a
\* blank text becomes "Ne ukazano" too
normalize_text(cell) ==
    LET text == strip(IF cell = NaN THEN NOT_SPECIFIED ELSE cell)
    IN  IF text = <<>> THEN NOT_SPECIFIED ELSE text

\* app.py:131  plan.where(plan > 0, fact)
potential_value(plan, fact) == IF RLess(Zero, plan) THEN plan ELSE fact

\* fact_closed_value without the fallback of app.py:134-135
fact_closed_without_fallback(status, fact, potential) ==
    IF status = "won" THEN fact ELSE Zero

\* app.py:132-135  fact.where(status == "won", 0.0), then the potential for a
\* won row whose value so far is <= 0
fact_closed_value(status, fact, potential) ==
    LET first == IF status = "won" THEN fact ELSE Zero
    IN  IF status = "won" /\ RLeq(first, Zero) THEN potential ELSE first

\* open_pipeline_value without the .where of app.py:137
open_pipeline_of_any_status(status, potential) == potential

\* app.py:137  potential.where(status == "open", 0.0)
open_pipeline_value(status, potential) ==
    IF status = "open" THEN potential ELSE Zero

\* app.py:138-140  (potential * probability).where(status == "open", 0.0)
weighted_forecast_value(status, potential, probability) ==
    IF status = "open" THEN RMul(potential, probability) ELSE Zero

\* app.py:142-144  (status == x).astype(int)
indicator(status, x) == IF status = x THEN 1 ELSE 0

\* app.py:121-147 for one row whose date parsed
enrich_row(raw) ==
    LET plan == to_numeric(raw.plan)
        fact == to_numeric(raw.fact)
        stage == normalize_text(raw.stage)
        status == classify_stage(stage)
        probability == stage_probability(stage)
        potential == potential_value(plan, fact)
    IN  [date |-> [day |-> raw.date.day, time |-> raw.date.time],
         manager |-> normalize_text(raw.manager),
         stage |-> stage,
         client |-> normalize_text(raw.client),
         product |-> normalize_text(raw.product),
         plan |-> plan,
         fact |-> fact,
         status |-> status,
         stage_prob |-> probability,
         potential |-> potential,
         fact_closed |-> fact_closed_value(status, fact, potential),
         open_pipeline |-> open_pipeline_value(status, potential),
         weighted_forecast |->
             weighted_forecast_value(status, potential, probability),
         won |-> indicator(status, "won"),
         lost |-> indicator(status, "lost"),
         in_progress |-> indicator(status, "open"),
         day |-> raw.date.day]

\* timestamp a is not after timestamp b
DateLeq(a, b) == a.day < b.day \/ (a.day = b.day /\ a.time <= b.time)

IndexOrders(n) ==
    {p \in [1..n -> 1..n] : \A i, j \in 1..n : p[i] = p[j] => i = j}

\* app.py:148  sort_values(DATE_COL).  The default sort of pandas is not
\* stable, so rows of equal timestamp may come out in any order: every
\* ordering of the rows that ascends by timestamp.
sort_values_by_date(rows) ==
    {[i \in 1..Len(rows) |-> rows[p[i]]] : p \in
        {q \in IndexOrders(Len(rows)) :
            \A i \in 1..(Len(rows) - 1) :
                DateLeq(rows[q[i]].date, rows[q[i + 1]].date)}}

\* app.py:118-147  the rows whose date parsed (dropna), enriched, in the
\* order of the file
preprocess_rows(raw_rows) ==
    LET kept == SelectSeq(raw_rows, LAMBDA raw : raw.date.parses)
    IN  [i \in 1..Len(kept) |-> enrich_row(kept[i])]

-----------------------------------------------------------------------------
(* app.py:151-201  parse_date_range, get_previous_period, filter_data.     *)

\* selected_value is what st.date_input returned: a tuple of 0, 1 or 2 days.
parse_date_range(selected_value, min_date, max_date) ==
    IF Len(selected_value) = 2
    THEN LET a == selected_value[1]
             b == selected_value[2]
         IN  <<IF a <= b THEN a ELSE b, IF a <= b THEN b ELSE a>>
    ELSE <<min_date, max_date>>

\* get_previous_period with previous_start one day too early
get_previous_period_long(start, end) ==
    LET days_count == (end - start) + 1
        previous_end == start - 1
        previous_start == previous_end - days_count
    IN  <<previous_start, previous_end>>

get_previous_period(start, end) ==
    LET days_count == (end - start) + 1
        previous_end == start - 1
        previous_start == previous_end - (days_count - 1)
    IN  <<previous_start, previous_end>>

\* Series.str.contains(pattern, case=False, na=False): a regular expression
\* search that ignores case.  The patterns of the model are made of literal
\* symbols and of ".", which stands for any one symbol.
str_contains(text, pattern) ==
    \E i \in 0..(Len(text) - Len(pattern)) :
        \A j \in 1..Len(pattern) :
            \/ pattern[j] = "."
            \/ LowerOf(pattern[j]) = LowerOf(text[i + j])

\* filter_data with the manager filter applied without its `if managers`: an
\* empty selector matches nothing
filter_data_unguarded(d, start, end, managers, products, stages, statuses, amount, query) ==
    LET in_period ==
            SelectSeq(d, LAMBDA r : r.date.day >= start /\ r.date.day <= end)
        by_manager == SelectSeq(in_period, LAMBDA r : r.manager \in managers)
        by_product ==
            IF products # {}
            THEN SelectSeq(by_manager, LAMBDA r : r.product \in products)
            ELSE by_manager
        by_stage ==
            IF stages # {}
            THEN SelectSeq(by_product, LAMBDA r : r.stage \in stages)
            ELSE by_product
        by_status ==
            IF statuses # {}
            THEN SelectSeq(by_stage, LAMBDA r : r.status \in statuses)
            ELSE by_stage
        by_amount ==
            IF RLess(Zero, amount)
            THEN SelectSeq(by_status, LAMBDA r : RLeq(amount, r.potential))
            ELSE by_status
        by_client ==
            IF query # <<>>
            THEN SelectSeq(by_amount, LAMBDA r : str_contains(r.client, query))
            ELSE by_amount
    IN  by_client

\* filter_data with the period mask shifted by one row: the first row of the
\* period is lost
filter_data_shifted(d, start, end, managers, products, stages, statuses, amount, query) ==
    LET in_period ==
            SelectSeq(d, LAMBDA r : r.date.day >= start /\ r.date.day <= end)
        shifted == IF in_period = <<>> THEN <<>> ELSE Tail(in_period)
    IN  SelectSeq(shifted,
                  LAMBDA r :
                      /\ managers # {} => r.manager \in managers
                      /\ products # {} => r.product \in products
                      /\ stages # {} => r.stage \in stages
                      /\ statuses # {} => r.status \in statuses
                      /\ RLess(Zero, amount) => RLeq(amount, r.potential)
                      /\ query # <<>> => str_contains(r.client, query))

filter_data(d, start, end, managers, products, stages, statuses, amount, query) ==
    LET in_period ==
            SelectSeq(d, LAMBDA r : r.date.day >= start /\ r.date.day <= end)
        by_manager ==
            IF managers # {}
            THEN SelectSeq(in_period, LAMBDA r : r.manager \in managers)
            ELSE in_period
        by_product ==
            IF products # {}
            THEN SelectSeq(by_manager, LAMBDA r : r.product \in products)
            ELSE by_manager
        by_stage ==
            IF stages # {}
            THEN SelectSeq(by_product, LAMBDA r : r.stage \in stages)
            ELSE by_product
        by_status ==
            IF statuses # {}
            THEN SelectSeq(by_stage, LAMBDA r : r.status \in statuses)
            ELSE by_stage
        by_amount ==
            IF RLess(Zero, amount)
            THEN SelectSeq(by_status, LAMBDA r : RLeq(amount, r.potential))
            ELSE by_status
        by_client ==
            IF query # <<>>
            THEN SelectSeq(by_amount, LAMBDA r : str_contains(r.client, query))
            ELSE by_amount
    IN  by_client

-----------------------------------------------------------------------------
(* app.py:204-231  calculate_kpis.                                         *)

Hundred == Rat(100)

calculate_kpis(d) ==
    LET won == ISum([i \in 1..Len(d) |-> d[i].won])
        lost == ISum([i \in 1..Len(d) |-> d[i].lost])
        in_progress == ISum([i \in 1..Len(d) |-> d[i].in_progress])
        total_deals == Len(d)
        plan == RSum([i \in 1..Len(d) |-> d[i].plan])
        fact == RSum([i \in 1..Len(d) |-> d[i].fact_closed])
        open_pipeline == RSum([i \in 1..Len(d) |-> d[i].open_pipeline])
        weighted_pipeline ==
            RSum([i \in 1..Len(d) |-> d[i].weighted_forecast])
        forecast == RAdd(fact, weighted_pipeline)
    IN  [plan |-> plan,
         fact |-> fact,
         open_pipeline |-> open_pipeline,
         weighted_pipeline |-> weighted_pipeline,
         forecast |-> forecast,
         total_deals |-> total_deals,
         won |-> won,
         lost |-> lost,
         in_progress |-> in_progress,
         plan_attainment_pct |-> RMul(safe_div(fact, plan), Hundred),
         forecast_attainment_pct |-> RMul(safe_div(forecast, plan), Hundred),
         conversion_pct |->
             RMul(safe_div(Rat(won), Rat(total_deals)), Hundred),
         win_rate_pct |-> RMul(safe_div(Rat(won), Rat(won + lost)), Hundred),
         avg_check |-> safe_div(fact, Rat(won))]

-----------------------------------------------------------------------------
(* app.py:51-56, 253-313  the formats and the grouped tables.              *)

\* round(value) of Python: to the nearest integer, a tie to the even one
round_half_even(x) ==
    LET floor == x.n \div x.d
        rest == x.n % x.d
    IN  IF 2 * rest < x.d THEN floor
        ELSE IF 2 * rest > x.d THEN floor + 1
        ELSE IF floor % 2 = 0 THEN floor ELSE floor + 1

\* format_money: the integer the text shows
format_money(value) == round_half_even(value)

\* f"{value:.1f}": the number the text shows
format_1f(value) == Frac(round_half_even(RMul(value, Rat(10))), 10)

SetToSeq(S) == CHOOSE q \in [1..Cardinality(S) -> S] : Range(q) = S

\* sort_values(key, ascending=False): the default sort of pandas is not
\* stable, so every ordering of the rows that descends by the key.
sort_values_descending(rows, keys) ==
    {[i \in 1..Len(rows) |-> rows[p[i]]] : p \in
        {q \in IndexOrders(Len(rows)) :
            \A i \in 1..(Len(rows) - 1) :
                RLeq(keys[q[i + 1]], keys[q[i]])}}

\* app.py:257-278  the row of one manager
manager_group(d, manager) ==
    LET g == SelectSeq(d, LAMBDA r : r.manager = manager)
        leads == Len(g)
        won == ISum([i \in 1..Len(g) |-> g[i].won])
        lost == ISum([i \in 1..Len(g) |-> g[i].lost])
        plan == RSum([i \in 1..Len(g) |-> g[i].plan])
        fact == RSum([i \in 1..Len(g) |-> g[i].fact_closed])
    IN  [manager |-> manager,
         leads |-> leads,
         won |-> won,
         lost |-> lost,
         in_progress |-> ISum([i \in 1..Len(g) |-> g[i].in_progress]),
         plan |-> plan,
         fact |-> fact,
         open_pipeline |-> RSum([i \in 1..Len(g) |-> g[i].open_pipeline]),
         weighted_forecast |->
             RSum([i \in 1..Len(g) |-> g[i].weighted_forecast]),
         conversion_pct |-> RMul(Frac(won, leads), Hundred),
         win_rate_pct |->
             RMul(IF won + lost = 0 THEN Zero ELSE Frac(won, won + lost),
                  Hundred),
         plan_pct |->
             RMul(IF plan.n = 0 THEN Zero ELSE RDiv(fact, plan), Hundred),
         avg_check |-> IF won = 0 THEN Zero ELSE RDiv(fact, Rat(won))]

\* build_manager_table with a row for each manager of the department, the
\* absent ones filled with zeros
build_manager_table_zero_filled(d) ==
    IF d = <<>> THEN {<<>>}
    ELSE LET keys == SetToSeq({d[i].manager : i \in 1..Len(d)}
                                  \cup {<<"Ivanov">>, <<"Petrov">>})
             groups == [i \in 1..Len(keys) |-> manager_group(d, keys[i])]
         IN  sort_values_descending(
                 groups, [i \in 1..Len(groups) |-> groups[i].fact])

\* The tables build_manager_table may return: one row per manager of d,
\* descending by "Fakt".
build_manager_table(d) ==
    IF d = <<>> THEN {<<>>}
    ELSE LET keys == SetToSeq({d[i].manager : i \in 1..Len(d)})
             groups == [i \in 1..Len(keys) |-> manager_group(d, keys[i])]
         IN  sort_values_descending(
                 groups, [i \in 1..Len(groups) |-> groups[i].fact])

\* app.py:287-296  the row of one client
client_group(d, client) ==
    LET g == SelectSeq(d, LAMBDA r : r.client = client)
        won == ISum([i \in 1..Len(g) |-> g[i].won])
    IN  [client |-> client,
         deals |-> Len(g),
         won |-> won,
         revenue |-> RSum([i \in 1..Len(g) |-> g[i].fact_closed]),
         potential |-> RSum([i \in 1..Len(g) |-> g[i].open_pipeline]),
         last_deal |-> g[CHOOSE i \in 1..Len(g) :
                            \A j \in 1..Len(g) :
                                DateLeq(g[j].date, g[i].date)].date,
         conversion_pct |-> RMul(Frac(won, Len(g)), Hundred)]

build_client_table(d) ==
    IF d = <<>> THEN {<<>>}
    ELSE LET keys == SetToSeq({d[i].client : i \in 1..Len(d)})
             groups == [i \in 1..Len(keys) |-> client_group(d, keys[i])]
         IN  sort_values_descending(
                 groups, [i \in 1..Len(groups) |-> groups[i].revenue])

\* app.py:304-312  the row of one product
product_group(d, product) ==
    LET g == SelectSeq(d, LAMBDA r : r.product = product)
        won == ISum([i \in 1..Len(g) |-> g[i].won])
    IN  [product |-> product,
         deals |-> Len(g),
         won |-> won,
         revenue |-> RSum([i \in 1..Len(g) |-> g[i].fact_closed]),
         potential |-> RSum([i \in 1..Len(g) |-> g[i].open_pipeline]),
         conversion_pct |-> RMul(Frac(won, Len(g)), Hundred)]

build_product_table(d) ==
    IF d = <<>> THEN {<<>>}
    ELSE LET keys == SetToSeq({d[i].product : i \in 1..Len(d)})
             groups == [i \in 1..Len(keys) |-> product_group(d, keys[i])]
         IN  sort_values_descending(
                 groups, [i \in 1..Len(groups) |-> groups[i].revenue])

-----------------------------------------------------------------------------
(* app.py:316-344  generate_insights.  An insight is [level, message,      *)
(* detail]: the level, which of the seven texts, and the values the text   *)
(* is formatted with.                                                      *)

\* plan_below_80 with the threshold of the win rate, 25
plan_below_25(k) ==
    RLess(Zero, k.plan) /\ RLess(k.plan_attainment_pct, Rat(25))

plan_below_80(k) ==
    RLess(Zero, k.plan) /\ RLess(k.plan_attainment_pct, Rat(80))

forecast_below_plan(k) ==
    RLess(Zero, k.plan) /\ RLess(k.forecast_attainment_pct, Hundred)

low_win_rate(k) == RLess(k.win_rate_pct, Rat(25))

pipeline_empty(k) == k.open_pipeline.n = 0 /\ RLess(k.fact, k.plan)

\* manager_table.iloc[0]["Fakt"] / kpis["fact"] * 100
top_manager_share(k, managers) ==
    RMul(RDiv(managers[1].fact, k.fact), Hundred)

manager_dependency(k, managers) ==
    /\ managers # <<>>
    /\ RLess(Zero, k.fact)
    /\ RLess(Rat(55), top_manager_share(k, managers))

\* client_table.iloc[0]["Vyruchka"] / kpis["fact"] * 100
top_client_share(k, clients) ==
    RMul(RDiv(clients[1].revenue, k.fact), Hundred)

client_concentration(k, clients) ==
    /\ clients # <<>>
    /\ RLess(Zero, k.fact)
    /\ RLess(Rat(35), top_client_share(k, clients))

Insight(level, message, detail) ==
    [level |-> level, message |-> message, detail |-> detail]

NoDeviations == Insight("success", "no_critical_deviations", <<>>)

\* generate_insights with the rules chained by elif: the first rule that holds
\* is the only one reported
generate_insights_elif(k, managers, clients) ==
    IF plan_below_80(k)
    THEN <<Insight("warning", "plan_below_80", <<>>)>>
    ELSE IF forecast_below_plan(k)
    THEN <<Insight("error", "forecast_gap",
                   <<format_money(RMax(RSub(k.plan, k.forecast), Zero))>>)>>
    ELSE IF low_win_rate(k)
    THEN <<Insight("warning", "low_win_rate", <<>>)>>
    ELSE IF pipeline_empty(k)
    THEN <<Insight("warning", "pipeline_empty", <<>>)>>
    ELSE IF manager_dependency(k, managers)
    THEN <<Insight("info", "manager_dependency",
                   <<managers[1].manager,
                     format_1f(top_manager_share(k, managers))>>)>>
    ELSE IF client_concentration(k, clients)
    THEN <<Insight("info", "client_concentration",
                   <<clients[1].client,
                     format_1f(top_client_share(k, clients))>>)>>
    ELSE <<NoDeviations>>

generate_insights(k, managers, clients) ==
    LET i1 == IF plan_below_80(k)
              THEN <<Insight("warning", "plan_below_80", <<>>)>>
              ELSE <<>>
        i2 == IF forecast_below_plan(k)
              THEN <<Insight("error", "forecast_gap",
                             <<format_money(
                                 RMax(RSub(k.plan, k.forecast), Zero))>>)>>
              ELSE <<>>
        i3 == IF low_win_rate(k)
              THEN <<Insight("warning", "low_win_rate", <<>>)>>
              ELSE <<>>
        i4 == IF pipeline_empty(k)
              THEN <<Insight("warning", "pipeline_empty", <<>>)>>
              ELSE <<>>
        i5 == IF manager_dependency(k, managers)
              THEN <<Insight("info", "manager_dependency",
                             <<managers[1].manager,
                               format_1f(top_manager_share(k, managers))>>)>>
              ELSE <<>>
        i6 == IF client_concentration(k, clients)
              THEN <<Insight("info", "client_concentration",
                             <<clients[1].client,
                               format_1f(top_client_share(k, clients))>>)>>
              ELSE <<>>
        found == i1 \o i2 \o i3 \o i4 \o i5 \o i6
    IN  IF found = <<>> THEN <<NoDeviations>> ELSE found

-----------------------------------------------------------------------------
(* app.py:610-645  the funnel: stage_table and stage_detail.               *)

\* The symbols of the texts in the order of their code points: the space,
\* ",", "-", ".", the digits, the Latin capitals and small letters, the
\* Cyrillic capitals (A .. Ya) and small letters (a .. ya).
Alphabet ==
    << " ", ",", "-", ".",
       "0", "1", "2", "3", "4", "5", "6", "7", "8", "9",
       "A", "B", "C", "D", "E", "F", "G", "H", "I", "J", "K", "L", "M", "N",
       "O", "P", "Q", "R", "S", "T", "U", "V", "W", "X", "Y", "Z",
       "a", "b", "c", "d", "e", "f", "g", "h", "i", "j", "k", "l", "m", "n",
       "o", "p", "q", "r", "s", "t", "u", "v", "w", "x", "y", "z",
       "Ca", "Cb", "Cv", "Cg", "Cd", "Ce", "Czh", "Cz", "Ci", "Cj", "Ck",
       "Cl", "Cm", "Cn", "Co", "Cp", "Cr", "Cs", "Ct", "Cu", "Cf", "Ch",
       "Cc", "Cch", "Csh", "Cshch", "Chard", "Cy", "Csoft", "Ceh", "Cyu",
       "Cya",
       "ca", "cb", "cv", "cg", "cd", "ce", "czh", "cz", "ci", "cj", "ck",
       "cl", "cm", "cn", "co", "cp", "cr", "cs", "ct", "cu", "cf", "ch",
       "cc", "cch", "csh", "cshch", "chard", "cy", "csoft", "ceh", "cyu",
       "cya" >>

CodePoint(c) == CHOOSE i \in 1..Len(Alphabet) : Alphabet[i] = c

\* a < b for two str of Python: at the first position where they differ the
\* code point of a is the smaller, or a is a proper prefix of b
RECURSIVE TextLess(_, _)
TextLess(a, b) ==
    IF b = <<>> THEN FALSE
    ELSE IF a = <<>> THEN TRUE
    ELSE IF Head(a) = Head(b) THEN TextLess(Tail(a), Tail(b))
    ELSE CodePoint(Head(a)) < CodePoint(Head(b))

\* The order groupby([STAGE_COL, "Veroyatnost etapa"]) gives its groups: by
\* the stage label, then by the probability.
GroupKeyLess(a, b) ==
    \/ TextLess(a.stage, b.stage)
    \/ a.stage = b.stage /\ RLess(a.stage_prob, b.stage_prob)

\* app.py:610-614  the row of one (stage, probability) group
stage_group(d, key) ==
    LET g == SelectSeq(d, LAMBDA r : /\ r.stage = key.stage
                                     /\ r.stage_prob = key.stage_prob)
    IN  [stage |-> key.stage,
         stage_prob |-> key.stage_prob,
         deals |-> Len(g),
         potential |-> RSum([i \in 1..Len(g) |-> g[i].potential]),
         fact |-> RSum([i \in 1..Len(g) |-> g[i].fact_closed])]

\* app.py:610-614  groupby(...).agg(...): one row per (stage, probability)
\* pair that occurs, in the order of the keys
stage_groups(d) ==
    LET keys == {[stage |-> d[i].stage, stage_prob |-> d[i].stage_prob] :
                    i \in 1..Len(d)}
        position(key) ==
            1 + Cardinality({other \in keys : GroupKeyLess(other, key)})
    IN  [k \in 1..Cardinality(keys) |->
            stage_group(d, CHOOSE key \in keys : position(key) = k)]

\* stage_table sorted by the probability alone
stage_table_by_probability(d) ==
    LET groups == stage_groups(d)
        n == Len(groups)
        before(j, i) ==
            \/ RLess(groups[j].stage_prob, groups[i].stage_prob)
            \/ /\ groups[j].stage_prob = groups[i].stage_prob
               /\ j < i
        position(i) == 1 + Cardinality({j \in 1..n : before(j, i)})
    IN  [k \in 1..n |-> groups[CHOOSE i \in 1..n : position(i) = k]]

\* app.py:610-618  the groups, sorted by ["Veroyatnost etapa", "Sdelki"],
\* ascending=[True, False].  A sort by several columns is the lexsort of
\* pandas, which is stable: rows equal in both keys keep the order of the
\* groupby.
stage_table_of(d) ==
    LET groups == stage_groups(d)
        n == Len(groups)
        before(j, i) ==
            \/ RLess(groups[j].stage_prob, groups[i].stage_prob)
            \/ /\ groups[j].stage_prob = groups[i].stage_prob
               /\ \/ groups[j].deals > groups[i].deals
                  \/ groups[j].deals = groups[i].deals /\ j < i
        position(i) == 1 + Cardinality({j \in 1..n : before(j, i)})
    IN  [k \in 1..n |-> groups[CHOOSE i \in 1..n : position(i) = k]]

\* Series.round(1): to the nearest tenth, a tie to the even one
round_1(x) == Frac(round_half_even(RMul(x, Rat(10))), 10)

\* conversion_to_previous without the .round(1) of app.py:643-645
conversion_unrounded(deals, i) ==
    LET shifted == IF i = 1 THEN <<>> ELSE <<deals[i - 1]>>
        replaced == IF shifted # <<>> /\ shifted[1] = 0 THEN <<>> ELSE shifted
    IN  IF replaced = <<>>
        THEN Hundred
        ELSE RMul(Frac(deals[i], replaced[1]), Hundred)

\* app.py:640-645  the conversion of row i of the column deals:
\* deals / deals.shift(1).replace(0, pd.NA) * 100, .fillna(100), .round(1).
\* A missing value is the empty sequence.
conversion_to_previous(deals, i) ==
    LET shifted == IF i = 1 THEN <<>> ELSE <<deals[i - 1]>>
        replaced == IF shifted # <<>> /\ shifted[1] = 0 THEN <<>> ELSE shifted
        ratio == IF replaced = <<>>
                 THEN <<>>
                 ELSE <<RMul(Frac(deals[i], replaced[1]), Hundred)>>
        filled == IF ratio = <<>> THEN Hundred ELSE ratio[1]
    IN  round_1(filled)

\* app.py:639-645  stage_table with the conversion column
stage_detail_of(t) ==
    LET deals == [i \in 1..Len(t) |-> t[i].deals]
    IN  [i \in 1..Len(t) |->
            [stage |-> t[i].stage,
             deals |-> t[i].deals,
             potential |-> t[i].potential,
             fact |-> t[i].fact,
             conversion |-> conversion_to_previous(deals, i)]]

-----------------------------------------------------------------------------
(* The inputs of a run: the Excel file and what the user sets in the       *)
(* sidebar.                                                                *)

Timestamp(day, time) == [parses |-> TRUE, day |-> day, time |-> time]
NaT == [parses |-> FALSE, day |-> 0, time |-> 0]

RawRow(date, manager, stage, client, product, plan, fact) ==
    [date |-> date, manager |-> manager, stage |-> stage, client |-> client,
     product |-> product, plan |-> plan, fact |-> fact]

\* Stage labels: "Sdelka", "Peregovory", "Otkaz", " WON ", "Lid", "Novyi",
\* "Neuspeshno", "Proigrysh", "Schet na oplata", "Poterya lida".
Sdelka == <<"Cs", "cd", "ce", "cl", "ck", "ca">>
Peregovory == <<"Cp", "ce", "cr", "ce", "cg", "co", "cv", "co", "cr", "cy">>
Otkaz == <<"Co", "ct", "ck", "ca", "cz">>
PaddedWon == <<" ", "W", "O", "N", " ">>
Lid == <<"Cl", "ci", "cd">>
Novyi == <<"Cn", "co", "cv", "cy", "cj">>
Neuspeshno == <<"Cn", "ce", "cu", "cs", "cp", "ce", "csh", "cn", "co">>
Proigrysh == <<"Cp", "cr", "co", "ci", "cg", "cr", "cy", "csh">>
SchetNaOplata ==
    <<"Cs", "cch", "ce", "ct", " ", "cn", "ca", " ", "co", "cp", "cl", "ca",
      "ct", "ca">>
PoteryaLida ==
    <<"Cp", "co", "ct", "ce", "cr", "cya", " ", "cl", "ci", "cd", "ca">>

\* The rows the files of a script run are made of.
ScriptRows ==
    { RawRow(Timestamp(1, 0), <<"Ivanov">>, Sdelka, <<"A", "b">>, <<"CRM">>,
             <<"1", "0", "0">>, <<"5", "0">>),
      RawRow(Timestamp(2, 1), <<" ", "Petrov">>, Peregovory, <<"b", "a">>,
             <<"ERP">>, <<"2", "0", "0">>, NaN),
      RawRow(Timestamp(3, 0), <<"Ivanov">>, Otkaz, NaN, <<"CRM">>,
             <<"0">>, <<"0">>),
      RawRow(Timestamp(1, 0), <<"Petrov">>, PaddedWon, <<"A", "b">>,
             <<"CRM">>, <<"0">>, <<"8", "0">>),
      RawRow(NaT, <<"Ivanov">>, Lid, <<"b", "a">>, <<"ERP">>,
             <<"3", "0", "0">>, <<"0">>) }

\* The title rows of the files: complete, complete with a padded title and an
\* extra column, without the manager column, without both amount columns.
ScriptColumns ==
    { REQUIRED_COLUMNS,
      <<DATE_COL, <<" ">> \o MANAGER_COL \o <<" ">>, <<"Kommentarii">>,
        STAGE_COL, CLIENT_COL, PRODUCT_COL, FACT_COL, PLAN_COL>>,
      <<DATE_COL, STAGE_COL, CLIENT_COL, PRODUCT_COL, PLAN_COL, FACT_COL>>,
      <<DATE_COL, MANAGER_COL, STAGE_COL, CLIENT_COL, PRODUCT_COL>> }

\* The sequences of at most MaxRows elements of S.
Tables(S) == UNION {[1..n -> S] : n \in 0..MaxRows}

\* A multiselect holds a subset of its options: of the selections below, the
\* ones the options of the table allow.
Selections(choices, options) == {c \in choices : c \subseteq options}

ManagerChoices == {{}, {<<"Ivanov">>}}
ProductChoices == {{}, {<<"CRM">>}}
StageChoices == {{}, {Sdelka, Otkaz}}
StatusChoices == {{}, {"won", "open"}}

\* What st.date_input may return for the days min .. max: a pair of days (in
\* either order), one day while the user is still picking, or nothing.
PeriodInputs(min, max) ==
    {<<a, b>> : a \in min..max, b \in min..max}
        \cup {<<a>> : a \in min..max} \cup {<<>>}

\* The minimum amounts the user enters (number_input, min_value=0).
MinAmounts == {Zero, Rat(150)}

\* The client queries the user enters, before .strip(): none, a blank, and
\* " aB".
ClientQueries == {<<>>, <<" ">>, <<" ", "a", "B">>}

-----------------------------------------------------------------------------
(* The script, app.py:347-546, one action per call of the engine.          *)

Stop(level, message, detail) ==
    /\ report' = <<Insight(level, message, detail)>>
    /\ pc' = "stopped"

\* app.py:359-360  raw_data = load_data(file_bytes)
LoadData ==
    /\ pc = "load"
    /\ \E columns \in ScriptColumns, rows \in Tables(ScriptRows) :
           raw_data' = [columns |-> columns, rows |-> rows]
    /\ pc' = "preprocess"
    /\ executed' = executed \cup {"load_data"}
    /\ UNCHANGED <<df, start_date, end_date, selected_managers,
                   selected_products, selected_stages, selected_statuses,
                   min_amount, client_query, compare_previous, filtered_df,
                   kpis, manager_table, client_table, product_table,
                   previous_period, previous_kpis, insights, report>>
    /\ UNCHANGED <<stage_table, stage_detail>>

\* preprocess_data without the st.stop() of app.py:116: the error is shown and
\* the run goes on
PreprocessDataNoStop ==
    /\ pc = "preprocess"
    /\ executed' = executed \cup {"preprocess_data"}
    /\ LET missing == missing_columns(raw_data.columns)
       IN  report' = IF missing # <<>>
                     THEN <<Insight("error", "missing_columns", missing)>>
                     ELSE report
    /\ df' \in sort_values_by_date(preprocess_rows(raw_data.rows))
    /\ pc' = "prepared"
    /\ UNCHANGED <<raw_data, start_date, end_date, selected_managers,
                   selected_products, selected_stages, selected_statuses,
                   min_amount, client_query, compare_previous, filtered_df,
                   kpis, manager_table, client_table, product_table,
                   previous_period, previous_kpis, insights>>
    /\ UNCHANGED <<stage_table, stage_detail>>

\* app.py:361, 108-148  df = preprocess_data(raw_data): st.error and
\* st.stop() when a required column is missing
PreprocessData ==
    /\ pc = "preprocess"
    /\ executed' = executed \cup {"preprocess_data"}
    /\ LET missing == missing_columns(raw_data.columns)
       IN  IF missing # <<>>
           THEN /\ Stop("error", "missing_columns", missing)
                /\ UNCHANGED df
           ELSE /\ df' \in sort_values_by_date(preprocess_rows(raw_data.rows))
                /\ pc' = "prepared"
                /\ UNCHANGED report
    /\ UNCHANGED <<raw_data, start_date, end_date, selected_managers,
                   selected_products, selected_stages, selected_statuses,
                   min_amount, client_query, compare_previous, filtered_df,
                   kpis, manager_table, client_table, product_table,
                   previous_period, previous_kpis, insights>>
    /\ UNCHANGED <<stage_table, stage_detail>>

\* app.py:363-365  if df.empty: st.warning, st.stop()
CheckPrepared ==
    /\ pc = "prepared"
    /\ IF df = <<>>
       THEN Stop("warning", "no_valid_rows", <<>>)
       ELSE pc' = "sidebar" /\ UNCHANGED report
    /\ UNCHANGED <<raw_data, df, start_date, end_date, selected_managers,
                   selected_products, selected_stages, selected_statuses,
                   min_amount, client_query, compare_previous, filtered_df,
                   kpis, manager_table, client_table, product_table,
                   previous_period, previous_kpis, insights, executed>>
    /\ UNCHANGED <<stage_table, stage_detail>>

\* app.py:367-421  the sidebar: the widgets bound to the data, and what the
\* user has set in them
SelectFilters ==
    /\ pc = "sidebar"
    /\ LET days == {df[i].date.day : i \in 1..Len(df)}
           min_date == CHOOSE a \in days : \A b \in days : a <= b
           max_date == CHOOSE a \in days : \A b \in days : b <= a
       IN  \E selected_period \in PeriodInputs(min_date, max_date) :
               /\ start_date' =
                      parse_date_range(selected_period, min_date, max_date)[1]
               /\ end_date' =
                      parse_date_range(selected_period, min_date, max_date)[2]
    /\ selected_managers' \in
           Selections(ManagerChoices, {df[i].manager : i \in 1..Len(df)})
    /\ selected_products' \in
           Selections(ProductChoices, {df[i].product : i \in 1..Len(df)})
    /\ selected_stages' \in
           Selections(StageChoices, {df[i].stage : i \in 1..Len(df)})
    /\ selected_statuses' \in Selections(StatusChoices, Range(STATUS_LABELS))
    /\ min_amount' \in MinAmounts
    /\ client_query' \in ClientQueries
    /\ compare_previous' \in BOOLEAN
    /\ pc' = "filter"
    /\ UNCHANGED <<raw_data, df, filtered_df, kpis, manager_table,
                   client_table, product_table, previous_period,
                   previous_kpis, insights, report, executed>>
    /\ UNCHANGED <<stage_table, stage_detail>>

\* filter_data as the script calls it, for the period start .. end
filter_selected(start, end) ==
    filter_data(df, start, end, selected_managers, selected_products,
                selected_stages, selected_statuses, min_amount,
                strip(client_query))

\* app.py:423-437  filtered_df = filter_data(...); st.warning and st.stop()
\* when it is empty
FilterData ==
    /\ pc = "filter"
    /\ filtered_df' = filter_selected(start_date, end_date)
    /\ executed' = executed \cup {"filter_data"}
    /\ IF filtered_df' = <<>>
       THEN Stop("warning", "no_data_for_filters", <<>>)
       ELSE pc' = "kpis" /\ UNCHANGED report
    /\ UNCHANGED <<raw_data, df, start_date, end_date, selected_managers,
                   selected_products, selected_stages, selected_statuses,
                   min_amount, client_query, compare_previous, kpis,
                   manager_table, client_table, product_table,
                   previous_period, previous_kpis, insights>>
    /\ UNCHANGED <<stage_table, stage_detail>>

\* app.py:439  kpis = calculate_kpis(filtered_df)
CalculateKpis ==
    /\ pc = "kpis"
    /\ kpis' = calculate_kpis(filtered_df)
    /\ executed' = executed \cup {"calculate_kpis"}
    /\ pc' = "tables"
    /\ UNCHANGED <<raw_data, df, start_date, end_date, selected_managers,
                   selected_products, selected_stages, selected_statuses,
                   min_amount, client_query, compare_previous, filtered_df,
                   manager_table, client_table, product_table,
                   previous_period, previous_kpis, insights, report>>
    /\ UNCHANGED <<stage_table, stage_detail>>

\* app.py:440-442  the manager, client and product tables
BuildTables ==
    /\ pc = "tables"
    /\ manager_table' \in build_manager_table(filtered_df)
    /\ client_table' \in build_client_table(filtered_df)
    /\ product_table' \in build_product_table(filtered_df)
    /\ executed' = executed \cup {"build_manager_table", "build_client_table",
                                  "build_product_table"}
    /\ pc' = "previous"
    /\ UNCHANGED <<raw_data, df, start_date, end_date, selected_managers,
                   selected_products, selected_stages, selected_statuses,
                   min_amount, client_query, compare_previous, filtered_df,
                   kpis, previous_period, previous_kpis, insights, report>>
    /\ UNCHANGED <<stage_table, stage_detail>>

\* app.py:444-462  the KPIs of the period before, when the user asks for the
\* comparison and that period has rows.  previous_period and previous_kpis
\* hold no element for None, one element for a value.
PreviousPeriod ==
    /\ pc = "previous"
    /\ IF compare_previous
       THEN LET previous == get_previous_period(start_date, end_date)
                previous_df == filter_selected(previous[1], previous[2])
            IN  /\ previous_period' = <<previous>>
                /\ previous_kpis' = IF previous_df # <<>>
                                    THEN <<calculate_kpis(previous_df)>>
                                    ELSE <<>>
                /\ executed' = executed \cup {"get_previous_period"}
       ELSE UNCHANGED <<previous_period, previous_kpis, executed>>
    /\ pc' = "insights"
    /\ UNCHANGED <<raw_data, df, start_date, end_date, selected_managers,
                   selected_products, selected_stages, selected_statuses,
                   min_amount, client_query, compare_previous, filtered_df,
                   kpis, manager_table, client_table, product_table,
                   insights, report>>
    /\ UNCHANGED <<stage_table, stage_detail>>

\* app.py:537-546  the insights of the summary tab
GenerateInsights ==
    /\ pc = "insights"
    /\ insights' = generate_insights(kpis, manager_table, client_table)
    /\ executed' = executed \cup {"generate_insights"}
    /\ pc' = "funnel"
    /\ UNCHANGED <<raw_data, df, start_date, end_date, selected_managers,
                   selected_products, selected_stages, selected_statuses,
                   min_amount, client_query, compare_previous, filtered_df,
                   kpis, manager_table, client_table, product_table,
                   previous_period, previous_kpis, report>>
    /\ UNCHANGED <<stage_table, stage_detail>>

\* app.py:610-618  the stage table of the funnel tab
StageTable ==
    /\ pc = "funnel"
    /\ stage_table' = stage_table_of(filtered_df)
    /\ executed' = executed \cup {"stage_table"}
    /\ pc' = "detail"
    /\ UNCHANGED <<raw_data, df, start_date, end_date, selected_managers,
                   selected_products, selected_stages, selected_statuses,
                   min_amount, client_query, compare_previous, filtered_df,
                   kpis, manager_table, client_table, product_table,
                   previous_period, previous_kpis, insights, stage_detail,
                   report>>

\* app.py:639-645  the stage table with the conversion to the previous stage
StageDetail ==
    /\ pc = "detail"
    /\ stage_detail' = stage_detail_of(stage_table)
    /\ executed' = executed \cup {"stage_detail"}
    /\ pc' = "done"
    /\ UNCHANGED <<raw_data, df, start_date, end_date, selected_managers,
                   selected_products, selected_stages, selected_statuses,
                   min_amount, client_query, compare_previous, filtered_df,
                   kpis, manager_table, client_table, product_table,
                   previous_period, previous_kpis, insights, stage_table,
                   report>>

\* The state before a run: nothing loaded, computed or reported yet.
Blank ==
    /\ raw_data = [columns |-> <<>>, rows |-> <<>>]
    /\ df = <<>>
    /\ start_date = 0
    /\ end_date = 0
    /\ selected_managers = {}
    /\ selected_products = {}
    /\ selected_stages = {}
    /\ selected_statuses = {}
    /\ min_amount = Zero
    /\ client_query = <<>>
    /\ compare_previous = TRUE
    /\ filtered_df = <<>>
    /\ kpis = <<>>
    /\ manager_table = <<>>
    /\ client_table = <<>>
    /\ product_table = <<>>
    /\ previous_period = <<>>
    /\ previous_kpis = <<>>
    /\ insights = <<>>
    /\ stage_table = <<>>
    /\ stage_detail = <<>>
    /\ report = <<>>
    /\ executed = {}

Init == pc = "load" /\ Blank

Next ==
    \/ LoadData
    \/ PreprocessData
    \/ CheckPrepared
    \/ SelectFilters
    \/ FilterData
    \/ CalculateKpis
    \/ BuildTables
    \/ PreviousPeriod
    \/ GenerateInsights
    \/ StageTable
    \/ StageDetail

Spec == Init /\ [][Next]_vars

-----------------------------------------------------------------------------
(* preprocess_data on one row, for every stage label, plan cell and fact   *)
(* cell below.                                                             *)

\* The stage cells: the labels, a missing cell, an empty and a blank text.
StageCells ==
    {Sdelka, Peregovory, Otkaz, PaddedWon, Lid, Novyi, Neuspeshno, Proigrysh,
     SchetNaOplata, PoteryaLida, NaN, <<>>, <<" ">>}

\* The amount cells: "0", "100", "-5", "1,5", "1 000", "5-", "", a missing
\* cell, "1.2.3", "-", ".5", "12 rub."
AmountCells ==
    { <<"0">>, <<"1", "0", "0">>, <<"-", "5">>, <<"1", ",", "5">>,
      <<"1", " ", "0", "0", "0">>, <<"5", "-">>, <<>>, NaN,
      <<"1", ".", "2", ".", "3">>, <<"-">>, <<".", "5">>,
      <<"1", "2", " ", "cr", "cu", "cb", ".">> }

RowInputs ==
    {RawRow(Timestamp(1, 0), <<"Ivanov">>, stage, <<"A", "b">>, <<"CRM">>,
            plan, fact) :
        stage \in StageCells, plan \in AmountCells, fact \in AmountCells}

InitRow ==
    /\ pc = "preprocess"
    /\ \E row \in RowInputs :
           raw_data = [columns |-> REQUIRED_COLUMNS, rows |-> <<row>>]
    /\ df = <<>>
    /\ start_date = 0
    /\ end_date = 0
    /\ selected_managers = {}
    /\ selected_products = {}
    /\ selected_stages = {}
    /\ selected_statuses = {}
    /\ min_amount = Zero
    /\ client_query = <<>>
    /\ compare_previous = TRUE
    /\ filtered_df = <<>>
    /\ kpis = <<>>
    /\ manager_table = <<>>
    /\ client_table = <<>>
    /\ product_table = <<>>
    /\ previous_period = <<>>
    /\ previous_kpis = <<>>
    /\ insights = <<>>
    /\ stage_table = <<>>
    /\ stage_detail = <<>>
    /\ report = <<>>
    /\ executed = {"load_data"}

NextRow == PreprocessData \/ CheckPrepared

SpecRow == InitRow /\ [][NextRow]_vars

\* preprocess_data has returned a table
Preprocessed == "preprocess_data" \in executed /\ pc # "stopped"

-----------------------------------------------------------------------------

\* C2: every row of the table preprocess_data returns that is won and has a
\* potential value above 0 has a realized value ("Fakt zakrytiya") above 0.
C2_WonFallback ==
    Preprocessed =>
        \A i \in 1..Len(df) :
            (df[i].status = "won" /\ RLess(Zero, df[i].potential))
                => RLess(Zero, df[i].fact_closed)

\* A won row whose fact amount is not above 0 and whose potential is: the
\* fallback gave it its realized value.
C2_Witness ==
    /\ Preprocessed
    /\ \E i \in 1..Len(df) :
           /\ df[i].status = "won"
           /\ RLeq(df[i].fact, Zero)
           /\ RLess(Zero, df[i].potential)
           /\ df[i].fact_closed = df[i].potential

\* C3: in every row of the table preprocess_data returns the status is one of
\* won, open, lost, the three indicator columns sum to 1 with the 1 in the
\* column of the status, and an open-pipeline value above 0 means status open.
C3_OneStatus ==
    Preprocessed =>
        \A i \in 1..Len(df) :
            /\ df[i].status \in {"won", "open", "lost"}
            /\ df[i].won + df[i].lost + df[i].in_progress = 1
            /\ df[i].won = 1 <=> df[i].status = "won"
            /\ df[i].lost = 1 <=> df[i].status = "lost"
            /\ df[i].in_progress = 1 <=> df[i].status = "open"
            /\ RLess(Zero, df[i].open_pipeline) => df[i].status = "open"

\* An open row with an open-pipeline value above 0, counted once, in the
\* column "V rabote".
C3_Witness ==
    /\ Preprocessed
    /\ \E i \in 1..Len(df) :
           /\ RLess(Zero, df[i].open_pipeline)
           /\ df[i].status = "open"
           /\ df[i].in_progress = 1
           /\ df[i].won + df[i].lost = 0

\* The characters to_numeric keeps of a cell start with a minus sign.
LeadingMinus(cell) == Head(cleaned(cell)) = "-"

\* The cell is one pd.to_numeric cannot parse.
Unparseable(cell) == ~ParseNumber(cleaned(cell)).parsed

\* What C10 says of one amount, as amended.
AmountNormalized(cell, value) ==
    /\ value.d > 0
    /\ ~LeadingMinus(cell) => RLeq(Zero, value)
    /\ LeadingMinus(cell) => RLeq(value, Zero)
    /\ Unparseable(cell) => value = Zero

\* The one row of the file and the row preprocess_data made of it.
OneRowPreprocessed ==
    Preprocessed /\ Len(raw_data.rows) = 1 /\ Len(df) = 1

\* C10, as amended: after normalization the plan and the fact amount of a row
\* are numbers, not negative unless the characters kept of the raw cell start
\* with a minus sign (then not positive), and a cell that cannot be parsed
\* becomes 0.
C10_AmountsNormalized ==
    OneRowPreprocessed =>
        /\ AmountNormalized(raw_data.rows[1].plan, df[1].plan)
        /\ AmountNormalized(raw_data.rows[1].fact, df[1].fact)

\* C10 as the spec states it: the plan and the fact amount of every row are
\* not negative.
C10_NonNegative ==
    Preprocessed =>
        \A i \in 1..Len(df) :
            RLeq(Zero, df[i].plan) /\ RLeq(Zero, df[i].fact)

\* A plan cell with a minus sign that stayed negative, beside a fact cell
\* that cannot be parsed and became 0.
C10_Witness ==
    /\ OneRowPreprocessed
    /\ LeadingMinus(raw_data.rows[1].plan)
    /\ RLess(df[1].plan, Zero)
    /\ Unparseable(raw_data.rows[1].fact)
    /\ df[1].fact = Zero

-----------------------------------------------------------------------------
(* calculate_kpis, the grouped tables and generate_insights on every table *)
(* of at most MaxRows enriched rows, the empty one included.               *)

\* The rows: two managers with a client each, a won, an open and a lost
\* stage, plans "0", "100", "-100" and facts "0", "120".
AggRows ==
    {RawRow(Timestamp(1, 0), who[1], stage, who[2], <<"CRM">>, plan, fact) :
        who \in {<<<<"Ivanov">>, <<"A", "b">>>>, <<<<"Petrov">>, <<"b", "a">>>>},
        stage \in {Sdelka, Peregovory, Otkaz},
        plan \in {<<"0">>, <<"1", "0", "0">>, <<"-", "1", "0", "0">>},
        fact \in {<<"0">>, <<"1", "2", "0">>}}

InitAgg ==
    /\ pc = "kpis"
    /\ raw_data = [columns |-> REQUIRED_COLUMNS, rows |-> <<>>]
    /\ \E rows \in Tables(AggRows) : filtered_df = preprocess_rows(rows)
    /\ df = filtered_df
    /\ start_date = 1
    /\ end_date = 1
    /\ selected_managers = {}
    /\ selected_products = {}
    /\ selected_stages = {}
    /\ selected_statuses = {}
    /\ min_amount = Zero
    /\ client_query = <<>>
    /\ compare_previous = FALSE
    /\ kpis = <<>>
    /\ manager_table = <<>>
    /\ client_table = <<>>
    /\ product_table = <<>>
    /\ previous_period = <<>>
    /\ previous_kpis = <<>>
    /\ insights = <<>>
    /\ stage_table = <<>>
    /\ stage_detail = <<>>
    /\ report = <<>>
    /\ executed = {"load_data", "preprocess_data", "filter_data"}

NextAgg == CalculateKpis \/ BuildTables \/ PreviousPeriod \/ GenerateInsights

SpecAgg == InitAgg /\ [][NextAgg]_vars

\* calculate_kpis has returned the KPIs of filtered_df
KpisReady == "calculate_kpis" \in executed

\* generate_insights has returned
InsightsReady == "generate_insights" \in executed

\* rate is 0 when the denominator is 0, and numerator / denominator * factor
\* otherwise
RateOf(rate, numerator, denominator, factor) ==
    IF denominator.n = 0
    THEN rate = Zero
    ELSE RMul(rate, denominator) = RMul(numerator, factor)

\* C1: calculate_kpis returns, for every table and the empty one too, rates
\* that are 0 when their denominator is 0 and numerator / denominator (times
\* 100 for the percentages) otherwise; for the empty table every sum, count
\* and rate is 0.
C1_SafeRates ==
    KpisReady =>
        /\ kpis.total_deals = Len(filtered_df)
        /\ kpis.won + kpis.lost + kpis.in_progress = kpis.total_deals
        /\ kpis.forecast = RAdd(kpis.fact, kpis.weighted_pipeline)
        /\ RateOf(kpis.plan_attainment_pct, kpis.fact, kpis.plan, Hundred)
        /\ RateOf(kpis.forecast_attainment_pct, kpis.forecast, kpis.plan,
                  Hundred)
        /\ RateOf(kpis.conversion_pct, Rat(kpis.won), Rat(kpis.total_deals),
                  Hundred)
        /\ RateOf(kpis.win_rate_pct, Rat(kpis.won),
                  Rat(kpis.won + kpis.lost), Hundred)
        /\ RateOf(kpis.avg_check, kpis.fact, Rat(kpis.won), Rat(1))
        /\ filtered_df = <<>> =>
               /\ kpis.plan = Zero /\ kpis.fact = Zero
               /\ kpis.open_pipeline = Zero /\ kpis.weighted_pipeline = Zero
               /\ kpis.forecast = Zero
               /\ kpis.total_deals = 0 /\ kpis.won = 0 /\ kpis.lost = 0
               /\ kpis.in_progress = 0
               /\ kpis.plan_attainment_pct = Zero
               /\ kpis.forecast_attainment_pct = Zero
               /\ kpis.conversion_pct = Zero
               /\ kpis.win_rate_pct = Zero
               /\ kpis.avg_check = Zero

\* The KPIs of a table with realized value whose plans sum to 0: the two
\* rates over the plan are 0, the conversion is not.
C1_Witness ==
    /\ KpisReady
    /\ filtered_df # <<>>
    /\ kpis.plan = Zero
    /\ kpis.fact # Zero
    /\ kpis.plan_attainment_pct = Zero
    /\ kpis.forecast_attainment_pct = Zero
    /\ kpis.conversion_pct # Zero

\* The messages of the rules whose condition holds, in the order of the
\* rules.
RuleMessages ==
    <<"plan_below_80", "forecast_gap", "low_win_rate", "pipeline_empty",
      "manager_dependency", "client_concentration">>

RuleHolds(r) ==
    CASE r = 1 -> plan_below_80(kpis)
      [] r = 2 -> forecast_below_plan(kpis)
      [] r = 3 -> low_win_rate(kpis)
      [] r = 4 -> pipeline_empty(kpis)
      [] r = 5 -> manager_dependency(kpis, manager_table)
      [] r = 6 -> client_concentration(kpis, client_table)

\* C8: generate_insights reports every rule whose condition is true, each
\* once and in the order of the rules, and the fallback "no critical
\* deviations" exactly when no condition is true, as the only message.
C8_AllRulesReported ==
    InsightsReady =>
        LET holding == {r \in 1..6 : RuleHolds(r)}
        IN  /\ insights # <<>>
            /\ \A r \in 1..6 :
                   Cardinality({i \in 1..Len(insights) :
                       insights[i].message = RuleMessages[r]})
                       = IF r \in holding THEN 1 ELSE 0
            /\ \A i, j \in 1..Len(insights) :
                   \A r, q \in 1..6 :
                       (/\ i < j
                        /\ insights[i].message = RuleMessages[r]
                        /\ insights[j].message = RuleMessages[q]) => r < q
            /\ Cardinality({i \in 1..Len(insights) :
                   insights[i] = NoDeviations})
                   = IF holding = {} THEN 1 ELSE 0
            /\ holding = {} => insights = <<NoDeviations>>
            /\ Len(insights) = IF holding = {} THEN 1 ELSE Cardinality(holding)

\* Several rules hold at once and all are reported.
C8_Witness ==
    /\ InsightsReady
    /\ Cardinality({r \in 1..6 : RuleHolds(r)}) >= 4
    /\ Len(insights) >= 4

\* No rule holds and the fallback is the one message.
C8_WitnessFallback ==
    /\ InsightsReady
    /\ filtered_df # <<>>
    /\ insights = <<NoDeviations>>

HasMessage(message) ==
    \E i \in 1..Len(insights) : insights[i].message = message

\* C9, as amended: generate_insights emits the plan-at-risk warning whenever
\* the plan is above 0 and plan_attainment_pct is below 80, and the
\* forecast-shortfall message whenever the plan is above 0 and
\* forecast_attainment_pct is below 100.
C9_PlanWarnings ==
    InsightsReady =>
        /\ (RLess(Zero, kpis.plan) /\ RLess(kpis.plan_attainment_pct, Rat(80)))
               => HasMessage("plan_below_80")
        /\ (RLess(Zero, kpis.plan)
              /\ RLess(kpis.forecast_attainment_pct, Rat(100)))
               => HasMessage("forecast_gap")

\* C9 as the spec states it: the warning whenever plan_attainment_pct is
\* below 80, the shortfall message whenever forecast_attainment_pct is below
\* 100.
C9_Unguarded ==
    InsightsReady =>
        /\ RLess(kpis.plan_attainment_pct, Rat(80))
               => HasMessage("plan_below_80")
        /\ RLess(kpis.forecast_attainment_pct, Rat(100))
               => HasMessage("forecast_gap")

\* A plan above 0 that is attained below 80% and forecast below 100%, with
\* both messages.
C9_Witness ==
    /\ InsightsReady
    /\ RLess(Zero, kpis.plan)
    /\ RLess(kpis.plan_attainment_pct, Rat(80))
    /\ RLess(kpis.forecast_attainment_pct, Rat(100))
    /\ HasMessage("plan_below_80")
    /\ HasMessage("forecast_gap")

-----------------------------------------------------------------------------
(* The script run: the previous period, the filter, the schema error.      *)

\* C4: for start <= end, get_previous_period returns a period that ends the
\* day before start and has as many days as start .. end; for start = end it
\* is the single day before start.
C4_PreviousPeriod ==
    "get_previous_period" \in executed =>
        LET previous_start == previous_period[1][1]
            previous_end == previous_period[1][2]
        IN  /\ start_date <= end_date
            /\ previous_end = start_date - 1
            /\ (previous_end - previous_start) + 1
                   = (end_date - start_date) + 1
            /\ start_date = end_date =>
                   /\ previous_start = start_date - 1
                   /\ previous_end = start_date - 1

\* The previous period of a single day.
C4_Witness ==
    /\ "get_previous_period" \in executed
    /\ start_date = end_date
    /\ previous_period = <<<<start_date - 1, start_date - 1>>>>

\* filter_data has returned filtered_df
Filtered == "filter_data" \in executed /\ pc # "filter"

\* filter_data with the criteria of the run, on table d
Refilter(d) ==
    filter_data(d, start_date, end_date, selected_managers,
                selected_products, selected_stages, selected_statuses,
                min_amount, strip(client_query))

\* C5: filtering what filter_data returned, with the same criteria, returns
\* the same rows.
C5_FilterIdempotent == Filtered => Refilter(filtered_df) = filtered_df

\* A filter that removed a row and kept one.
C5_Witness ==
    /\ Filtered
    /\ filtered_df # <<>>
    /\ Len(filtered_df) < Len(df)
    /\ Refilter(filtered_df) = filtered_df

\* The row satisfies every predicate the criteria of the run supply.
Keeps(r) ==
    /\ start_date <= r.date.day
    /\ r.date.day <= end_date
    /\ selected_managers # {} => r.manager \in selected_managers
    /\ selected_products # {} => r.product \in selected_products
    /\ selected_stages # {} => r.stage \in selected_stages
    /\ selected_statuses # {} => r.status \in selected_statuses
    /\ RLess(Zero, min_amount) => RLeq(min_amount, r.potential)
    /\ strip(client_query) # <<>> => str_contains(r.client, strip(client_query))

InPeriod(r) == start_date <= r.date.day /\ r.date.day <= end_date

\* C6: filter_data returns exactly the rows of the table, in its order, that
\* lie in the period and satisfy every supplied predicate; an empty selector,
\* a minimum amount of 0 and an empty client query restrict nothing.
C6_FilterConjunction ==
    Filtered =>
        /\ filtered_df = SelectSeq(df, Keeps)
        /\ (/\ selected_managers = {} /\ selected_products = {}
            /\ selected_stages = {} /\ selected_statuses = {}
            /\ min_amount = Zero /\ strip(client_query) = <<>>)
               => filtered_df = SelectSeq(df, InPeriod)

\* Empty manager and product selectors beside a status selector that
\* removes a row: the rows of the other statuses are returned.
C6_Witness ==
    /\ Filtered
    /\ selected_managers = {}
    /\ selected_products = {}
    /\ selected_statuses # {}
    /\ filtered_df # <<>>
    /\ \E i \in 1..Len(df) :
           InPeriod(df[i]) /\ df[i].status \notin selected_statuses

SchemaError(missing) == <<Insight("error", "missing_columns", missing)>>

NoDataWarning == <<Insight("warning", "no_data_for_filters", <<>>)>>

\* C7: when the file lacks a required column the run halts in the schema
\* error state, reporting the missing titles, and neither the filter nor the
\* KPIs nor a grouped table is ever computed; the run that halts because the
\* filters match no row ends in another state, with the no-data warning.
C7_SchemaErrorHalts ==
    LET missing == missing_columns(raw_data.columns)
    IN  /\ (pc \notin {"load", "preprocess"} /\ missing # <<>>) =>
               /\ pc = "stopped"
               /\ report = SchemaError(missing)
               /\ executed = {"load_data", "preprocess_data"}
               /\ ~ENABLED Next
        /\ (pc = "stopped" /\ "filter_data" \in executed) =>
               /\ missing = <<>>
               /\ filtered_df = <<>>
               /\ report = NoDataWarning
               /\ report # SchemaError(missing)
               /\ ~ENABLED Next

\* A run halted by a file without its two amount columns.
C7_Witness ==
    /\ pc = "stopped"
    /\ missing_columns(raw_data.columns) = <<PLAN_COL, FACT_COL>>
    /\ report = SchemaError(<<PLAN_COL, FACT_COL>>)
    /\ "filter_data" \notin executed

-----------------------------------------------------------------------------
(* The manager table against the KPIs, on the tables of SpecAgg.           *)

\* build_manager_table has returned the table of filtered_df
TablesReady == "build_manager_table" \in executed

\* The rows of filtered_df of one manager.
RowsOf(manager) == SelectSeq(filtered_df, LAMBDA r : r.manager = manager)

\* The group row carries the counts and sums calculate_kpis gives for rows.
MirrorsKpis(group, rows) ==
    LET k == calculate_kpis(rows)
    IN  /\ group.leads = k.total_deals
        /\ group.won = k.won
        /\ group.lost = k.lost
        /\ group.in_progress = k.in_progress
        /\ group.plan = k.plan
        /\ group.fact = k.fact
        /\ group.open_pipeline = k.open_pipeline
        /\ group.weighted_forecast = k.weighted_pipeline

\* C11: for a non-empty table of enriched rows the manager table has exactly
\* one row per manager that occurs in the rows and none for any other, each
\* row's deal count, won, lost and open counts, plan, realized, open-pipeline
\* and weighted-forecast sums are those calculate_kpis returns for the rows of
\* that manager, and the rows add up to the KPIs of the whole table.
C11_ManagerRollup ==
    (TablesReady /\ filtered_df # <<>>) =>
        LET managers == {filtered_df[i].manager : i \in 1..Len(filtered_df)}
            n == Len(manager_table)
        IN  /\ {manager_table[i].manager : i \in 1..n} = managers
            /\ n = Cardinality(managers)
            /\ \A i \in 1..n :
                   MirrorsKpis(manager_table[i],
                               RowsOf(manager_table[i].manager))
            /\ ISum([i \in 1..n |-> manager_table[i].leads]) = kpis.total_deals
            /\ ISum([i \in 1..n |-> manager_table[i].won]) = kpis.won
            /\ ISum([i \in 1..n |-> manager_table[i].lost]) = kpis.lost
            /\ ISum([i \in 1..n |-> manager_table[i].in_progress])
                   = kpis.in_progress
            /\ RSum([i \in 1..n |-> manager_table[i].plan]) = kpis.plan
            /\ RSum([i \in 1..n |-> manager_table[i].fact]) = kpis.fact
            /\ RSum([i \in 1..n |-> manager_table[i].open_pipeline])
                   = kpis.open_pipeline
            /\ RSum([i \in 1..n |-> manager_table[i].weighted_forecast])
                   = kpis.weighted_pipeline

\* Two rows of one manager, a won and an open one, rolled up into the only
\* row of the table while the other manager has no row.
C11_Witness ==
    /\ TablesReady
    /\ Len(filtered_df) = 2
    /\ Len(manager_table) = 1
    /\ manager_table[1].manager = <<"Ivanov">>
    /\ manager_table[1].leads = 2
    /\ manager_table[1].won = 1
    /\ manager_table[1].in_progress = 1
    /\ RLess(Zero, manager_table[1].fact)
    /\ RLess(Zero, manager_table[1].weighted_forecast)

-----------------------------------------------------------------------------
(* The funnel: the script from calculate_kpis to stage_detail, on every    *)
(* table of 1 .. MaxFunnelRows rows over the stage labels below (the       *)
(* script stops before the funnel when no row is left).                    *)

\* One row per stage label: "Lid" 0.1 and "Poterya lida" 0.1 (the hint lid
\* comes first), "Peregovory" 0.65, "Sdelka" 1.0 and " WON " 1.0 (no hint,
\* won), "Otkaz" 0.0.
FunnelRows ==
    {RawRow(Timestamp(1, 0), <<"Ivanov">>, stage, <<"A", "b">>, <<"CRM">>,
            <<"1", "0", "0">>, <<"0">>) :
        stage \in {Lid, PoteryaLida, Peregovory, Sdelka, PaddedWon, Otkaz}}

InitFunnel ==
    /\ pc = "kpis"
    /\ raw_data = [columns |-> REQUIRED_COLUMNS, rows |-> <<>>]
    /\ \E n \in 1..MaxFunnelRows : \E rows \in [1..n -> FunnelRows] :
           filtered_df = preprocess_rows(rows)
    /\ df = filtered_df
    /\ start_date = 1
    /\ end_date = 1
    /\ selected_managers = {}
    /\ selected_products = {}
    /\ selected_stages = {}
    /\ selected_statuses = {}
    /\ min_amount = Zero
    /\ client_query = <<>>
    /\ compare_previous = FALSE
    /\ kpis = <<>>
    /\ manager_table = <<>>
    /\ client_table = <<>>
    /\ product_table = <<>>
    /\ previous_period = <<>>
    /\ previous_kpis = <<>>
    /\ insights = <<>>
    /\ stage_table = <<>>
    /\ stage_detail = <<>>
    /\ report = <<>>
    /\ executed = {"load_data", "preprocess_data", "filter_data"}

NextFunnel ==
    \/ CalculateKpis
    \/ BuildTables
    \/ PreviousPeriod
    \/ GenerateInsights
    \/ StageTable
    \/ StageDetail

SpecFunnel == InitFunnel /\ [][NextFunnel]_vars

\* stage_table has been built from filtered_df
StageTableReady == "stage_table" \in executed

\* stage_detail has been built from stage_table
StageDetailReady == "stage_detail" \in executed

\* value is a number of one decimal, the nearest one to exact
RoundedToOneDecimal(value, exact) ==
    /\ value.d \in {1, 2, 5, 10}
    /\ RLeq(RSub(value, exact), Frac(1, 20))
    /\ RLeq(RSub(exact, value), Frac(1, 20))

\* C12: in the funnel table the conversion of the first stage is 100, the
\* conversion of a stage whose predecessor has 0 deals is 100, and that of
\* every other stage is its deal count divided by the predecessor's deal count
\* times 100, rounded to one decimal.
C12_FunnelConversion ==
    StageDetailReady =>
        \A i \in 1..Len(stage_detail) :
            IF i = 1
            THEN stage_detail[i].conversion = Hundred
            ELSE IF stage_detail[i - 1].deals = 0
                 THEN stage_detail[i].conversion = Hundred
                 ELSE RoundedToOneDecimal(
                          stage_detail[i].conversion,
                          RMul(Frac(stage_detail[i].deals,
                                    stage_detail[i - 1].deals), Hundred))

\* A first stage of three deals at 100 and a second stage of one deal, whose
\* conversion 33.33... is shown as 33.3.
C12_Witness ==
    /\ StageDetailReady
    /\ Len(stage_detail) = 2
    /\ stage_detail[1].deals = 3
    /\ stage_detail[1].conversion = Hundred
    /\ stage_detail[2].deals = 1
    /\ stage_detail[2].conversion = Frac(333, 10)

\* C13: the stage table has one row per stage label of the filtered rows and
\* ascends by stage probability, with the deal count descending among stages
\* of equal probability: of two consecutive rows the earlier has the smaller
\* probability, or the same probability and at least as many deals.
C13_StageOrder ==
    StageTableReady =>
        LET stages == {filtered_df[i].stage : i \in 1..Len(filtered_df)}
            n == Len(stage_table)
        IN  /\ {stage_table[i].stage : i \in 1..n} = stages
            /\ n = Cardinality(stages)
            /\ \A i \in 1..(n - 1) :
                   \/ RLess(stage_table[i].stage_prob,
                            stage_table[i + 1].stage_prob)
                   \/ /\ stage_table[i].stage_prob
                             = stage_table[i + 1].stage_prob
                      /\ stage_table[i].deals >= stage_table[i + 1].deals

\* Three stages: an open one first, then two of probability 1.0 of which the
\* one with more deals comes first although its label sorts last.
C13_Witness ==
    /\ StageTableReady
    /\ Len(stage_table) = 3
    /\ stage_table[1].stage = Peregovory
    /\ stage_table[2].stage = Sdelka
    /\ stage_table[2].deals = 2
    /\ stage_table[3].stage = strip(PaddedWon)
    /\ stage_table[3].deals = 1
    /\ stage_table[2].stage_prob = stage_table[3].stage_prob

-----------------------------------------------------------------------------
(* The stage probability, on the rows of SpecRow.                          *)

\* The trimmed lower-cased label of the one row.
StageText == lower(strip(df[1].stage))

\* Hint k of the list occurs in the label of the row.
HintOccurs(k) == Contains(StageText, STAGE_PROBABILITY_HINTS[k].hint)

\* C14: the stage probability of a row is that of the first hint of
\* STAGE_PROBABILITY_HINTS, in list order, that occurs in the trimmed
\* lower-cased label; when none occurs it is 1.0 for a won, 0.0 for a lost
\* and 0.35 for an open label; it lies in [0, 1].
C14_FirstHintWins ==
    OneRowPreprocessed =>
        /\ \A k \in 1..Len(STAGE_PROBABILITY_HINTS) :
               (HintOccurs(k) /\ \A j \in 1..(k - 1) : ~HintOccurs(j))
                   => df[1].stage_prob = STAGE_PROBABILITY_HINTS[k].probability
        /\ (\A k \in 1..Len(STAGE_PROBABILITY_HINTS) : ~HintOccurs(k))
               => df[1].stage_prob =
                      (CASE classify_stage(df[1].stage) = "won" -> Rat(1)
                         [] classify_stage(df[1].stage) = "lost" -> Zero
                         [] classify_stage(df[1].stage) = "open"
                                -> Frac(35, 100))
        /\ RLeq(Zero, df[1].stage_prob)
        /\ RLeq(df[1].stage_prob, Rat(1))

\* "Poterya lida": the hints lid (0.1) and poter (0.0) both occur, poter
\* earlier in the label, and the row has the probability of lid, the first of
\* the list.
C14_Witness ==
    /\ OneRowPreprocessed
    /\ df[1].stage = PoteryaLida
    /\ HintOccurs(1)
    /\ HintOccurs(11)
    /\ df[1].stage_prob = Frac(1, 10)

\* No hint occurs in "Neuspeshno", "Proigrysh" or "Novyi": the probability
\* is the fallback of the status.
C14_WitnessFallback ==
    /\ OneRowPreprocessed
    /\ \A k \in 1..Len(STAGE_PROBABILITY_HINTS) : ~HintOccurs(k)
    /\ df[1].status = "open"
    /\ df[1].stage_prob = Frac(35, 100)

\* C15: the probabilities of STAGE_PROBABILITY_HINTS never decrease along the
\* list: of two hints the earlier has a probability no greater than the later.
C15_HintsAscending ==
    Preprocessed =>
        \A i, j \in 1..Len(STAGE_PROBABILITY_HINTS) :
            i < j => RLeq(STAGE_PROBABILITY_HINTS[i].probability,
                          STAGE_PROBABILITY_HINTS[j].probability)

=============================================================================
